---- MODULE Spec2Model ----
(***************************************************************************)
(* Model of the fine-tuning guide notebook                                 *)
(* (Finetuning/Finetuning_Guide.ipynb): the dataset-to-chat mapper         *)
(* map_fields and the bounded-concurrency evaluator get_model_answers,     *)
(* which fans get_answers out over a ThreadPool(8) with pool.imap and      *)
(* collects the answer lists in the calling thread.                        *)
(***************************************************************************)
EXTENDS Integers, Sequences, FiniteSets, TLC

(***************************************************************************)
(* Bounds of the model.                                                    *)
(***************************************************************************)
\* rows of the validation set in the narrow specification
MaxItems == 2
\* longest questions / answers list of a generated validation row
MaxQ == 2
\* rows of the validation set, and lists of predictions, handed to get_metrics
MaxMetricRows == 2
\* longest list of true answers or of predicted answers of one row in get_metrics
MaxScored == 2
\* rows of the validation set in the wide specification (more rows than workers)
MaxWideItems == 9
\* longest questions / answers list of a row handed to map_fields
MaxTurns == 2
\* rows of a validation set that may hold rows get_answers cannot read
MaxRaiseItems == 3

(***************************************************************************)
(* Program constants.                                                      *)
(***************************************************************************)
\* ThreadPool(8)
ThreadPoolSize == 8
\* max_tokens=64 of the evaluation request
max_tokens == 64
\* the text of system_prompt before its "{}" placeholder
system_prompt == "Read the story and extract answers for the questions.\nStory: "
\* the sentinel appended by the except branch
InvalidResponse == "Invalid Response"
base_model == "meta-llama/Meta-Llama-3.1-8B-Instruct-Turbo"
finetuned_model == "zainhas/Meta-Llama-3.1-8B-Instruct-Reference-test1_8b-e5a0fb5d"
ModelNames == {base_model, finetuned_model}

VARIABLES
    coqa_dataset_validation, \* the validation rows, a sequence of rows
    model_name,              \* the argument of get_model_answers
    pc,                      \* position of the calling thread
    inqueue,                 \* tasks (row indices) handed to the pool, not yet taken
    idle,                    \* number of pool workers not running a task
    status,                  \* per row: "queued", "waiting" (request in flight), "finished"
    messages,                \* per row: the local messages list of its get_answers call
    answers,                 \* per row: the local answers list of its get_answers call
    sent,                    \* per row: the requests issued so far (history)
    replies,                 \* per row: what the API did with each request (history)
    it_index,                \* IMapIterator._index (1-based)
    it_items,                \* IMapIterator._items
    it_unsorted,             \* IMapIterator._unsorted
    model_answers,           \* the result list of get_model_answers
    row,                     \* the row handed to map_fields
    mapped,                  \* what map_fields returned for row
    pred_answers,            \* the argument of get_metrics
    metric,                  \* what get_metrics returned (or that it raised)
    prev_sent,               \* the requests of the earlier get_model_answers run (history)
    notebook,                \* which notebook is run: "guide" or "lora"
    cell,                    \* the cell to run next, "halted" after an uncaught exception
    error,                   \* the uncaught exception, "" if none
    sft_report,              \* <<report>> once check_file has returned
    train_file_resp,         \* <<response>> once files.upload has returned
    ft_resp,                 \* <<response>> once fine_tuning.create has returned
    job_status,              \* the platform's status of the created job
    calls,                   \* the calls made so far, with their outcome (history)
    adapter_k,               \* position of the adapter loop in LoRA_adapters
    printed                  \* what the cells have printed

\* the state of the upload / fine-tune / inference cells
pipeVars == <<notebook, cell, error, sft_report, train_file_resp, ft_resp,
              job_status, calls, adapter_k, printed>>

\* the state outside get_model_answers and map_fields
otherVars == <<pred_answers, metric, prev_sent, pipeVars>>

vars == <<coqa_dataset_validation, model_name, pc, inqueue, idle, status,
          messages, answers, sent, replies, it_index, it_items, it_unsorted,
          model_answers, row, mapped, otherVars>>

evalVars == <<coqa_dataset_validation, model_name, pc, inqueue, idle, status,
              messages, answers, sent, replies, it_index, it_items,
              it_unsorted, model_answers>>

(***************************************************************************)
(* Helpers shared by map_fields and get_answers.                           *)
(***************************************************************************)
Min(a, b) == IF a <= b THEN a ELSE b

\* {"role": ..., "content": ...}
Msg(role, content) == [role |-> role, content |-> content]

\* system_prompt.format(story)
Format(story) == system_prompt \o story

\* variant: pairs up to the end of the longer list, padded (zip_longest)
ZipLongest(a, b) ==
    [k \in 1..(IF Len(a) >= Len(b) THEN Len(a) ELSE Len(b)) |->
        <<IF k <= Len(a) THEN a[k] ELSE "None", IF k <= Len(b) THEN b[k] ELSE "None">>]

\* zip(a, b): pairs up to the end of the shorter list
Zip(a, b) == [k \in 1..Min(Len(a), Len(b)) |-> <<a[k], b[k]>>]

\* sequences over S of length at most n
RECURSIVE SeqUpTo(_, _)
SeqUpTo(S, n) ==
    IF n = 0 THEN {<<>>}
    ELSE LET shorter == SeqUpTo(S, n - 1)
         IN  shorter \cup {Append(s, x) : s \in {t \in shorter : Len(t) = n - 1}, x \in S}

(***************************************************************************)
(* map_fields.                                                             *)
(***************************************************************************)
\* variant: the two appends of a round in the other order
RECURSIVE MapLoopAnswerFirst(_, _)
MapLoopAnswerFirst(pairs, msgs) ==
    IF pairs = <<>> THEN msgs
    ELSE MapLoopAnswerFirst(Tail(pairs),
                 Append(Append(msgs, Msg("assistant", Head(pairs)[2])),
                        Msg("user", Head(pairs)[1])))

\* variant: q and a taken from the wrong side of the pair
RECURSIVE MapLoopContentSwapped(_, _)
MapLoopContentSwapped(pairs, msgs) ==
    IF pairs = <<>> THEN msgs
    ELSE MapLoopContentSwapped(Tail(pairs),
                 Append(Append(msgs, Msg("user", Head(pairs)[2])),
                        Msg("assistant", Head(pairs)[1])))

\* the for loop of map_fields over the zipped pairs
RECURSIVE MapLoop(_, _)
MapLoop(pairs, msgs) ==
    IF pairs = <<>> THEN msgs
    ELSE MapLoop(Tail(pairs),
                 Append(Append(msgs, Msg("user", Head(pairs)[1])),
                        Msg("assistant", Head(pairs)[2])))

map_fields(r) ==
    [messages |-> MapLoop(Zip(r.questions, r.answers.input_text),
                          <<Msg("system", Format(r.story))>>)]

(***************************************************************************)
(* The validation rows: row i of the set has its own story and its own     *)
(* question and answer texts.                                              *)
(***************************************************************************)
Text(kind, i, k) == kind \o ToString(i) \o "." \o ToString(k)

Row(i, nq, na) ==
    [story     |-> "story" \o ToString(i),
     questions |-> [k \in 1..nq |-> Text("q", i, k)],
     answers   |-> [input_text |-> [k \in 1..na |-> Text("a", i, k)]]]

\* validation sets of n rows whose list lengths are drawn from Lens
DatasetsOf(n, Lens) ==
    {[i \in 1..n |-> Row(i, nq[i], na[i])] : nq \in [1..n -> Lens], na \in [1..n -> Lens]}

Datasets == UNION {DatasetsOf(n, 0..MaxQ) : n \in 0..MaxItems}

\* validation sets whose rows have an answer for every question
LiveDatasets ==
    UNION {{[i \in 1..n |-> Row(i, len[i], len[i])] : len \in [1..n -> 0..MaxQ]} :
           n \in 0..MaxItems}

\* more rows than workers, every row one question with its answer
WideDatasets == UNION {DatasetsOf(n, {1}) : n \in (ThreadPoolSize + 1)..MaxWideItems}

\* the fields get_answers reads from a row
RowFields == {"story", "questions", "answers"}

\* row i without one of the fields get_answers reads
BrokenRow(i, f) == [g \in RowFields \ {f} |-> Row(i, 1, 1)[g]]

\* validation sets of one-question rows, any of them possibly short of a field
RaiseDatasets ==
    UNION {{[i \in 1..n |-> IF miss[i] = "none" THEN Row(i, 1, 1)
                            ELSE BrokenRow(i, miss[i])] :
              miss \in [1..n -> RowFields \cup {"none"}]} :
           n \in 1..MaxRaiseItems}

NumItems == Len(coqa_dataset_validation)
Items == 1..NumItems

\* the (question, true answer) pairs get_answers loops over for row i
Pairs(i) ==
    Zip(coqa_dataset_validation[i].questions,
        coqa_dataset_validation[i].answers.input_text)

(***************************************************************************)
(* get_answers.                                                            *)
(***************************************************************************)
\* data["story"], data["questions"] and data["answers"], read outside the
\* try block, do not raise KeyError
Readable(data) == RowFields \subseteq DOMAIN data

\* the messages list before the loop
InitialMessages(data) == <<Msg("system", Format(data.story))>>

\* messages.append({"role": "user", "content": q})
AppendUser(msgs, q) == Append(msgs, Msg("user", q))

\* the arguments of client.chat.completions.create
Request(msgs) == [messages |-> msgs, model |-> model_name, max_tokens |-> max_tokens]

\* response.choices[0].message.content: the text the API gives for a request,
\* a different one for each question asked
Completion(req) == "re: " \o req.messages[Len(req.messages)].content

\* what the API may do with a request: answer it, or fail (create raises, or
\* the response has nothing to read the answer from)
Failure == [ok |-> FALSE, content |-> "error"]
Outcomes(req) == {[ok |-> TRUE, content |-> Completion(req)], Failure}

\* variant: the newest answer put at the front of the list
AnsweredAtFront(ans, outcome) ==
    IF outcome.ok THEN <<outcome.content>> \o ans
    ELSE <<InvalidResponse>> \o ans

\* variant: an except branch that records nothing
AnsweredSkipFailure(ans, outcome) ==
    IF outcome.ok THEN Append(ans, outcome.content)
    ELSE ans

\* the try body after the call, and the except branch
Answered(ans, outcome) ==
    IF outcome.ok THEN Append(ans, outcome.content)
    ELSE Append(ans, InvalidResponse)

\* variant: an except branch that leaves the loop
LoopStopsOnFailure(i, k, outcome) == outcome.ok /\ k < Len(Pairs(i))

\* whether the for loop has a pair left after k pairs, whatever the last call did
LoopGoesOn(i, k, outcome) == k < Len(Pairs(i))

\* variant: the user turn of a failed call is taken back
MessagesDropFailed(msgs, outcome) ==
    IF outcome.ok THEN msgs ELSE SubSeq(msgs, 1, Len(msgs) - 1)

\* variant: the reply joins the history as an assistant turn
MessagesWithReply(msgs, outcome) ==
    IF outcome.ok THEN Append(msgs, Msg("assistant", outcome.content)) ELSE msgs

\* the messages list a round leaves to the next one: the reply is not added to it
MessagesAfterReply(msgs, outcome) == msgs

\* variant: one list shared by all calls instead of a local per call
SetShared(f, i, v) == [j \in DOMAIN f |-> v]

\* assignment to a local of the get_answers call on row i
SetLocal(f, i, v) == [f EXCEPT ![i] = v]

\* variant: a thread per task, however many are running
WorkerAvailableAlways == TRUE

\* a task is taken only by a worker of the pool that is not busy
WorkerAvailable == idle > 0

(***************************************************************************)
(* pool.imap: IMapIterator._set(i, obj) stores a result; results that      *)
(* arrive ahead of their turn wait in _unsorted.                           *)
(***************************************************************************)
\* variant: results that arrived early are never moved on
DrainNothing(idx, items, unsorted) ==
    [index |-> idx, items |-> items, unsorted |-> unsorted]

RECURSIVE Drain(_, _, _)
Drain(idx, items, unsorted) ==
    IF idx \in DOMAIN unsorted
    THEN Drain(idx + 1, Append(items, unsorted[idx]),
               [j \in DOMAIN unsorted \ {idx} |-> unsorted[j]])
    ELSE [index |-> idx, items |-> items, unsorted |-> unsorted]

\* variant: results handed on in the order they arrive (imap_unordered)
IMapSetUnordered(i, obj) ==
    [index |-> it_index + 1, items |-> Append(it_items, obj), unsorted |-> it_unsorted]

IMapSet(i, obj) ==
    IF i = it_index
    THEN Drain(it_index + 1, Append(it_items, obj), it_unsorted)
    ELSE [index    |-> it_index,
          items    |-> it_items,
          unsorted |-> [j \in DOMAIN it_unsorted \cup {i} |->
                            IF j = i THEN obj ELSE it_unsorted[j]]]

\* the worker hands back the return value of get_answers and is idle again
Return(i, ans) ==
    LET it == IMapSet(i, ans)
    IN  /\ it_index' = it.index
        /\ it_items' = it.items
        /\ it_unsorted' = it.unsorted
        /\ status' = [status EXCEPT ![i] = "finished"]

(***************************************************************************)
(* Actions of get_model_answers.                                           *)
(***************************************************************************)
\* with ThreadPool(8) as pool: pool.imap(get_answers, coqa_dataset_validation)
Imap ==
    /\ pc = "start"
    /\ pc' = "loop"
    /\ inqueue' = [i \in 1..NumItems |-> i]
    /\ UNCHANGED <<coqa_dataset_validation, model_name, idle, status, messages,
                   answers, sent, replies, it_index, it_items, it_unsorted,
                   model_answers, row, mapped, otherVars>>

\* an idle worker takes the next task and runs get_answers up to its first request
WorkerStart ==
    /\ inqueue # <<>>
    /\ WorkerAvailable
    /\ Readable(coqa_dataset_validation[Head(inqueue)])
    /\ LET i == Head(inqueue)
           msgs == InitialMessages(coqa_dataset_validation[i])
       IN  /\ inqueue' = Tail(inqueue)
           /\ answers' = SetLocal(answers, i, <<>>)
           /\ IF Pairs(i) # <<>>
              THEN LET m == AppendUser(msgs, Pairs(i)[1][1])
                   IN  /\ messages' = SetLocal(messages, i, m)
                       /\ sent' = [sent EXCEPT ![i] = Append(@, Request(m))]
                       /\ status' = [status EXCEPT ![i] = "waiting"]
                       /\ idle' = idle - 1
                       /\ UNCHANGED <<it_index, it_items, it_unsorted>>
              ELSE /\ messages' = SetLocal(messages, i, msgs)
                   /\ Return(i, <<>>)
                   /\ UNCHANGED <<sent, idle>>
    /\ UNCHANGED <<coqa_dataset_validation, model_name, pc, replies,
                   model_answers, row, mapped, otherVars>>

\* the request of row i comes back (or raises); get_answers runs on to its
\* next request, or returns
Respond(i) ==
    /\ status[i] = "waiting"
    /\ \E outcome \in Outcomes(sent[i][Len(sent[i])]) :
       LET ans == Answered(answers[i], outcome)
           k == Len(sent[i])
       IN  /\ replies' = [replies EXCEPT ![i] = Append(@, outcome)]
           /\ answers' = SetLocal(answers, i, ans)
           /\ IF LoopGoesOn(i, k, outcome)
              THEN LET m == AppendUser(MessagesAfterReply(messages[i], outcome),
                                       Pairs(i)[k + 1][1])
                   IN  /\ messages' = SetLocal(messages, i, m)
                       /\ sent' = [sent EXCEPT ![i] = Append(@, Request(m))]
                       /\ UNCHANGED <<status, idle, it_index, it_items, it_unsorted>>
              ELSE /\ Return(i, ans)
                   /\ idle' = idle + 1
                   /\ UNCHANGED <<messages, sent>>
    /\ UNCHANGED <<coqa_dataset_validation, model_name, pc, inqueue,
                   model_answers, row, mapped, otherVars>>

\* variant: the iterator hands on what a failed task left, raising nothing
NextRaisesNever == FALSE

\* IMapIterator.next(): the item next in order is that of a task that
\* raised, and next() raises it again in the caller
NextRaises == status[Len(model_answers) + 1] = "raised"

\* one round of the for loop: next(iterator), model_answers.append(answers)
Collect ==
    /\ pc = "loop"
    /\ it_items # <<>>
    /\ ~NextRaises
    /\ model_answers' = Append(model_answers, Head(it_items))
    /\ it_items' = Tail(it_items)
    /\ UNCHANGED <<coqa_dataset_validation, model_name, pc, inqueue, idle,
                   status, messages, answers, sent, replies, it_index,
                   it_unsorted, row, mapped, otherVars>>

\* an idle worker takes the next task and get_answers raises before its
\* loop: the worker hands the exception to the iterator in place of a result
WorkerRaise ==
    /\ inqueue # <<>>
    /\ WorkerAvailable
    /\ ~Readable(coqa_dataset_validation[Head(inqueue)])
    /\ LET i == Head(inqueue)
           it == IMapSet(i, <<>>)
       IN  /\ inqueue' = Tail(inqueue)
           /\ it_index' = it.index
           /\ it_items' = it.items
           /\ it_unsorted' = it.unsorted
           /\ status' = [status EXCEPT ![i] = "raised"]
    /\ UNCHANGED <<coqa_dataset_validation, model_name, pc, idle, messages,
                   answers, sent, replies, model_answers, row, mapped, otherVars>>

\* next(iterator) raises the exception of a task: the with block is left,
\* which terminates the pool and drops the tasks not yet taken, and
\* get_model_answers raises without reaching its return
CollectRaise ==
    /\ pc = "loop"
    /\ it_items # <<>>
    /\ NextRaises
    /\ pc' = "raised"
    /\ it_items' = Tail(it_items)
    /\ inqueue' = <<>>
    /\ UNCHANGED <<coqa_dataset_validation, model_name, idle, status, messages,
                   answers, sent, replies, it_index, it_unsorted, model_answers,
                   row, mapped, otherVars>>

\* variant: the loop ends as soon as no result is waiting
ExhaustedWhenEmpty == it_items = <<>>

\* IMapIterator.next() raises StopIteration: every result has been handed out
Exhausted == it_items = <<>> /\ it_index = NumItems + 1

\* the iterator is exhausted: the with block ends and model_answers is returned
Finish ==
    /\ pc = "loop"
    /\ Exhausted
    /\ pc' = "done"
    /\ UNCHANGED <<coqa_dataset_validation, model_name, inqueue, idle, status,
                   messages, answers, sent, replies, it_index, it_items,
                   it_unsorted, model_answers, row, mapped, otherVars>>

\* train.map(map_fields): the mapper is applied to a row
MapRow ==
    /\ mapped = <<>>
    /\ mapped' = <<map_fields(row)>>
    /\ UNCHANGED <<evalVars, row, otherVars>>

(***************************************************************************)
(* Specifications.                                                         *)
(***************************************************************************)
\* no pipeline cell is run
PipeIdle ==
    /\ notebook = "none"
    /\ cell = "end"
    /\ error = ""
    /\ sft_report = <<>>
    /\ train_file_resp = <<>>
    /\ ft_resp = <<>>
    /\ job_status = "none"
    /\ calls = <<>>
    /\ adapter_k = 1
    /\ printed = <<>>

\* nothing has been scored
InitOther ==
    /\ pred_answers = <<>>
    /\ metric = <<>>
    /\ prev_sent = <<>>
    /\ PipeIdle

NoRow == [story |-> "", questions |-> <<>>, answers |-> [input_text |-> <<>>]]

InitEval(D) ==
    /\ coqa_dataset_validation \in D
    /\ model_name \in ModelNames
    /\ pc = "start"
    /\ inqueue = <<>>
    /\ idle = ThreadPoolSize
    /\ status = [i \in Items |-> "queued"]
    /\ messages = [i \in Items |-> <<>>]
    /\ answers = [i \in Items |-> <<>>]
    /\ sent = [i \in Items |-> <<>>]
    /\ replies = [i \in Items |-> <<>>]
    /\ it_index = 1
    /\ it_items = <<>>
    /\ it_unsorted = <<>>
    /\ model_answers = <<>>
    /\ row = NoRow
    /\ mapped = <<>>
    /\ InitOther

Init == InitEval(Datasets)

InitWide == InitEval(WideDatasets) /\ model_name = base_model

Next ==
    \/ Imap
    \/ WorkerStart
    \/ \E i \in Items : Respond(i)
    \/ Collect
    \/ Finish

\* the base-model run of the notebook
InitFair == Init /\ model_name = base_model

Spec == InitFair /\ [][Next]_vars

SpecWide == InitWide /\ [][Next]_vars

\* a run over a validation set that may hold rows get_answers cannot read
InitRaise == InitEval(RaiseDatasets) /\ model_name = base_model

NextRaise == Next \/ WorkerRaise \/ CollectRaise

FairnessRaise ==
    /\ WF_vars(Imap)
    /\ WF_vars(WorkerStart)
    /\ WF_vars(WorkerRaise)
    /\ \A i \in 1..MaxRaiseItems : WF_vars(i \in Items /\ Respond(i))
    /\ WF_vars(Collect)
    /\ WF_vars(CollectRaise)
    /\ WF_vars(Finish)

SpecRaise == InitRaise /\ [][NextRaise]_vars /\ FairnessRaise

\* the base-model run has returned: answers = get_model_answers(model_name)
\* is called again, now for the fine-tuned model
SecondRun ==
    /\ pc = "done"
    /\ prev_sent = <<>>
    /\ model_name = base_model
    /\ prev_sent' = <<sent>>
    /\ model_name' = finetuned_model
    /\ pc' = "start"
    /\ inqueue' = <<>>
    /\ idle' = ThreadPoolSize
    /\ status' = [i \in Items |-> "queued"]
    /\ messages' = [i \in Items |-> <<>>]
    /\ answers' = [i \in Items |-> <<>>]
    /\ sent' = [i \in Items |-> <<>>]
    /\ replies' = [i \in Items |-> <<>>]
    /\ it_index' = 1
    /\ it_items' = <<>>
    /\ it_unsorted' = <<>>
    /\ model_answers' = <<>>
    /\ UNCHANGED <<coqa_dataset_validation, row, mapped, pred_answers, metric, pipeVars>>

\* every thread that can take a step eventually takes it, and every request
\* in flight eventually comes back or raises
Fairness ==
    /\ WF_vars(Imap)
    /\ WF_vars(WorkerStart)
    /\ \A i \in 1..MaxItems : WF_vars(i \in Items /\ Respond(i))
    /\ WF_vars(Collect)
    /\ WF_vars(Finish)

\* the run whose completion is followed: rows with as many answers as questions
InitLive == InitEval(LiveDatasets) /\ model_name = base_model

SpecFair == InitLive /\ [][Next]_vars /\ Fairness

NextTwoRuns == Next \/ SecondRun

SpecTwoRuns == InitFair /\ [][NextTwoRuns]_vars

Stories == {"s1", "s2"}
Questions == {"q1", "q2"}
AnswerTexts == {"a1", "a2"}

Rows ==
    [story : Stories,
     questions : SeqUpTo(Questions, MaxTurns),
     answers : [input_text : SeqUpTo(AnswerTexts, MaxTurns)]]

InitMap ==
    /\ row \in Rows
    /\ mapped = <<>>
    /\ coqa_dataset_validation = <<>>
    /\ model_name = base_model
    /\ pc = "idle"
    /\ inqueue = <<>>
    /\ idle = ThreadPoolSize
    /\ status = <<>>
    /\ messages = <<>>
    /\ answers = <<>>
    /\ sent = <<>>
    /\ replies = <<>>
    /\ it_index = 1
    /\ it_items = <<>>
    /\ it_unsorted = <<>>
    /\ model_answers = <<>>
    /\ InitOther

NextMap == MapRow

SpecMap == InitMap /\ [][NextMap]_vars

(***************************************************************************)
(* get_metrics.  Scores are exact fractions [num, den] in lowest terms.    *)
(***************************************************************************)
RECURSIVE GCD(_, _)
GCD(a, b) == IF b = 0 THEN a ELSE GCD(b, a % b)

Rat(n, d) == LET g == GCD(n, d) IN [num |-> n \div g, den |-> d \div g]
RAdd(x, y) == Rat(x.num * y.den + y.num * x.den, x.den * y.den)
RMul(x, y) == Rat(x.num * y.num, x.den * y.den)
\* x / y, for y other than zero
RDiv(x, y) == Rat(x.num * y.den, x.den * y.num)

\* sum(list)
RECURSIVE RSum(_)
RSum(list) == IF list = <<>> THEN Rat(0, 1) ELSE RAdd(Head(list), RSum(Tail(list)))

\* squad_metrics.get_tokens: the words of the normalised text (lower case,
\* punctuation and articles removed), for the texts that are scored here
get_tokens(t) ==
    CASE t = "cat" -> <<"cat">>
      [] t = "The cat." -> <<"cat">>
      [] t = "no response" -> <<"no", "response">>
      [] t = "Invalid Response" -> <<"invalid", "response">>

\* Counter(gold_toks) & Counter(pred_toks), summed: words in common, with
\* multiplicity
RECURSIVE NumSame(_, _)
NumSame(gold_toks, pred_toks) ==
    IF pred_toks = <<>> THEN 0
    ELSE LET w == Head(pred_toks)
             hit == {p \in DOMAIN gold_toks : gold_toks[p] = w}
         IN  IF hit = {} THEN NumSame(gold_toks, Tail(pred_toks))
             ELSE LET p == CHOOSE q \in hit : TRUE
                  IN  1 + NumSame([j \in 1..(Len(gold_toks) - 1) |->
                                      IF j < p THEN gold_toks[j] ELSE gold_toks[j + 1]],
                                  Tail(pred_toks))

\* squad_metrics.compute_exact(a_gold, a_pred)
compute_exact(a_gold, a_pred) ==
    IF get_tokens(a_gold) = get_tokens(a_pred) THEN Rat(1, 1) ELSE Rat(0, 1)

\* squad_metrics.compute_f1(a_gold, a_pred)
compute_f1(a_gold, a_pred) ==
    LET gold_toks == get_tokens(a_gold)
        pred_toks == get_tokens(a_pred)
        num_same == NumSame(gold_toks, pred_toks)
    IN  IF Len(gold_toks) = 0 \/ Len(pred_toks) = 0
        THEN (IF gold_toks = pred_toks THEN Rat(1, 1) ELSE Rat(0, 1))
        ELSE IF num_same = 0 THEN Rat(0, 1)
        ELSE LET precision == Rat(num_same, Len(pred_toks))
                 recall == Rat(num_same, Len(gold_toks))
             IN  RDiv(RMul(Rat(2, 1), RMul(precision, recall)), RAdd(precision, recall))

\* variant: a placeholder is left out of the scores
RECURSIVE ScoreRowSkipPlaceholder(_, _)
ScoreRowSkipPlaceholder(pairs, lists) ==
    IF pairs = <<>> THEN lists
    ELSE ScoreRowSkipPlaceholder(Tail(pairs),
            IF Head(pairs)[1] = InvalidResponse THEN lists
            ELSE [em |-> Append(lists.em, compute_exact(Head(pairs)[2], Head(pairs)[1])),
                  f1 |-> Append(lists.f1, compute_f1(Head(pairs)[2], Head(pairs)[1]))])

\* the inner for loop: one score of each kind per (pred_answer, true_answer)
RECURSIVE ScoreRow(_, _)
ScoreRow(pairs, lists) ==
    IF pairs = <<>> THEN lists
    ELSE ScoreRow(Tail(pairs),
                  [em |-> Append(lists.em, compute_exact(Head(pairs)[2], Head(pairs)[1])),
                   f1 |-> Append(lists.f1, compute_f1(Head(pairs)[2], Head(pairs)[1]))])

\* the outer for loop over zip(pred_answers, coqa_dataset_validation)
RECURSIVE ScoreAll(_, _)
ScoreAll(rows, lists) ==
    IF rows = <<>> THEN lists
    ELSE ScoreAll(Tail(rows),
                  ScoreRow(Zip(Head(rows)[1], Head(rows)[2].answers.input_text), lists))

\* em_metrics and f1_metrics when the loops are over
ScoreLists(pred, data) == ScoreAll(Zip(pred, data), [em |-> <<>>, f1 |-> <<>>])

\* variant: a mean per conversation, then the mean of those
RECURSIVE RowMeans(_, _)
RowMeans(rows, means) ==
    IF rows = <<>> THEN means
    ELSE LET one == ScoreRow(Zip(Head(rows)[1], Head(rows)[2].answers.input_text),
                             [em |-> <<>>, f1 |-> <<>>])
         IN  RowMeans(Tail(rows),
                      IF one.em = <<>> THEN means
                      ELSE [em |-> Append(means.em, RDiv(RSum(one.em), Rat(Len(one.em), 1))),
                            f1 |-> Append(means.f1, RDiv(RSum(one.f1), Rat(Len(one.f1), 1)))])

get_metrics_mean_of_means(pred, data) ==
    LET m == RowMeans(Zip(pred, data), [em |-> <<>>, f1 |-> <<>>])
    IN  IF Len(m.em) = 0
        THEN [raised |-> TRUE]
        ELSE [raised |-> FALSE,
              em |-> RDiv(RSum(m.em), Rat(Len(m.em), 1)),
              f1 |-> RDiv(RSum(m.f1), Rat(Len(m.f1), 1))]

\* variant: no scores give averages of zero instead of an error
get_metrics_zero_when_empty(pred, data) ==
    LET m == ScoreAll(Zip(pred, data), [em |-> <<>>, f1 |-> <<>>])
    IN  IF Len(m.em) = 0
        THEN [raised |-> FALSE, em |-> Rat(0, 1), f1 |-> Rat(0, 1)]
        ELSE [raised |-> FALSE,
              em |-> RDiv(RSum(m.em), Rat(Len(m.em), 1)),
              f1 |-> RDiv(RSum(m.f1), Rat(Len(m.f1), 1))]

\* get_metrics(pred_answers): the two averages, or ZeroDivisionError
get_metrics(pred, data) ==
    LET m == ScoreAll(Zip(pred, data), [em |-> <<>>, f1 |-> <<>>])
    IN  IF Len(m.em) = 0
        THEN [raised |-> TRUE]
        ELSE [raised |-> FALSE,
              em |-> RDiv(RSum(m.em), Rat(Len(m.em), 1)),
              f1 |-> RDiv(RSum(m.f1), Rat(Len(m.f1), 1))]

\* em_metric, f1_metric = get_metrics(answers)
GetMetrics ==
    /\ metric = <<>>
    /\ metric' = <<get_metrics(pred_answers, coqa_dataset_validation)>>
    /\ UNCHANGED <<evalVars, row, mapped, pred_answers, prev_sent, pipeVars>>

\* true answers of a scored row: "cat" and "no response" in turn
GoldText(k) == IF k % 2 = 1 THEN "cat" ELSE "no response"

GoldRow(i, n) ==
    [story     |-> "story" \o ToString(i),
     questions |-> [k \in 1..n |-> Text("q", i, k)],
     answers   |-> [input_text |-> [k \in 1..n |-> GoldText(k)]]]

MetricDatasets ==
    UNION {{[i \in 1..n |-> GoldRow(i, na[i])] : na \in [1..n -> 0..MaxScored]} :
           n \in 0..MaxMetricRows}

\* what a model answered, or the placeholder of a failed call
PredTexts == {"The cat.", "Invalid Response"}

PredLists == SeqUpTo(SeqUpTo(PredTexts, MaxScored), MaxMetricRows)

InitMetrics ==
    /\ coqa_dataset_validation \in MetricDatasets
    /\ pred_answers \in PredLists
    /\ metric = <<>>
    /\ prev_sent = <<>>
    /\ PipeIdle
    /\ model_name = base_model
    /\ pc = "idle"
    /\ inqueue = <<>>
    /\ idle = ThreadPoolSize
    /\ status = <<>>
    /\ messages = <<>>
    /\ answers = <<>>
    /\ sent = <<>>
    /\ replies = <<>>
    /\ it_index = 1
    /\ it_items = <<>>
    /\ it_unsorted = <<>>
    /\ model_answers = <<>>
    /\ row = NoRow
    /\ mapped = <<>>

NextMetrics == GetMetrics

SpecMetrics == InitMetrics /\ [][NextMetrics]_vars

\* pred_answers is a list get_model_answers can return for the validation
\* set: one inner list per row, one entry per (question, answer) pair
FromModelAnswers ==
    /\ Len(pred_answers) = NumItems
    /\ \A i \in Items : Len(pred_answers[i]) = Len(Pairs(i))

\* get_metrics(answers), answers being what get_model_answers returned
InitScores == InitMetrics /\ FromModelAnswers

SpecScores == InitScores /\ [][NextMetrics]_vars

(***************************************************************************)
(* The upload / fine-tune / inference cells of the fine-tuning guide       *)
(* ("guide") and of the LoRA inference notebook ("lora"), run from top to  *)
(* bottom.  An uncaught exception ends the run.                            *)
(***************************************************************************)
Notebooks == {"guide", "lora"}

\* the cells that call the platform, in notebook order
Cells(nb) ==
    IF nb = "guide"
    THEN <<"check_file", "files.upload", "fine_tuning.create",
           "fine_tuning.retrieve", "fine_tuning.list_events", "inference">>
    ELSE <<"files.upload", "fine_tuning.create", "inference", "adapters">>

NextCell(nb, c) ==
    LET k == CHOOSE j \in 1..Len(Cells(nb)) : Cells(nb)[j] = c
    IN  IF k = Len(Cells(nb)) THEN "end" ELSE Cells(nb)[k + 1]

\* the prepared training file of each notebook
TrainFile(nb) ==
    IF nb = "guide" THEN "coqa_prepared_train.jsonl"
    ELSE "datasets/small_coqa_10.jsonl"

\* ids the platform gives to an uploaded file
FileIds == {"file-9554964d-5711-419a-bcc2-c4edaaa07ee3",
            "file-a3c8206d-91f9-4c88-9b17-82647a99455d"}

\* id the platform gives to a created job
JobId == "ft-8bc4cb28-44c6-4ce7-b47f-055992a7d3c3"

\* model and suffix given to fine_tuning.create
FtModel(nb) ==
    IF nb = "guide" THEN "meta-llama/Meta-Llama-3.1-8B-Instruct-Reference"
    ELSE "meta-llama/Llama-3.2-1B-Instruct"

FtSuffix(nb) == IF nb = "guide" THEN "test1_8b" ELSE "FT-webinar-demo-1b"

\* ft_resp.output_name
OutputName(nb) ==
    IF nb = "guide"
    THEN "zainhas/Meta-Llama-3.1-8B-Instruct-Reference-test1_8b-e5a0fb5d"
    ELSE "zainhas/Llama-3.2-1B-Instruct-FT-webinar-demo-1b-6521872f"

LoRA_adapters ==
    <<"zainhas/Meta-Llama-3.1-8B-Instruct-Reference-my-demo-finetune-4224205a",
      "zainhas/Meta-Llama-3.1-8B-Instruct-Reference-30b975fd",
      "zainhas/Meta-Llama-3.1-8B-Instruct-Reference-f9ef93c8">>

\* max_tokens of the inference cells
inference_max_tokens == 124

\* a field of a response variable; "undefined" while the variable is unset
Field(v, f) == IF v = <<>> THEN "undefined" ELSE v[1][f]

\* one entry of the call history: what was called, with what, whether it
\* returned, and the platform's job status when it was issued
Call(api, arg, ok) == [api |-> api, arg |-> arg, ok |-> ok, job |-> job_status]

\* variant: the exception is swallowed and the next cell runs
AfterCallContinue(ok) == NextCell(notebook, cell)

\* the cell that runs after a call: the next one, or none if it raised
AfterCall(ok) == IF ok THEN NextCell(notebook, cell) ELSE "halted"

Raised(ok, e) == IF ok THEN "" ELSE e

\* variant: the assertion is not evaluated
AssertSkipped(report) == TRUE

\* assert sft_report["is_check_passed"] == True
AssertHolds(report) == report.is_check_passed = TRUE

\* the training_file argument of fine_tuning.create
training_file(nb) ==
    IF nb = "guide" THEN "file-19c6ef51-b734-4f3c-bc17-62fbad2bd0d0"
    ELSE Field(train_file_resp, "id")

\* the model argument of the inference cell
InferenceModel(nb) ==
    IF nb = "guide" THEN Field(ft_resp, "output_name")
    ELSE Field(ft_resp, "output_name") \o "-adapter"

InferencePrompt(nb) ==
    IF nb = "guide" THEN "What is the capital of France?"
    ELSE "What is the capital of the France?"

InferenceTemperature(nb) == IF nb = "guide" THEN "default" ELSE "0.7"

ChatRequest(model, prompt, temperature) ==
    [model |-> model, messages |-> <<Msg("user", prompt)>>,
     max_tokens |-> inference_max_tokens, temperature |-> temperature]

AdapterPrompt == "Write a short haiku about elephants."

\* variant: the list walked from its end
AdapterAtReversed(k) == LoRA_adapters[Len(LoRA_adapters) + 1 - k]

\* the k-th adapter of the loop
AdapterAt(k) == LoRA_adapters[k]

\* '\n'+20*'######'+'\n'
Separator == "\n" \o "########################################################################################################################" \o "\n"

\* the three prints of one loop iteration
AdapterPrints(adapter, content) ==
    <<"Response from " \o adapter \o ":\n", content, Separator>>

\* what the upload cell prints
UploadPrint(nb, id) == IF nb = "guide" THEN "Train file response: " \o id ELSE id

\* state the cells do not touch
nonPipeVars == <<evalVars, row, mapped, pred_answers, metric, prev_sent>>

\* sft_report = check_file(...); print; assert sft_report["is_check_passed"]
CheckFile ==
    /\ cell = "check_file"
    /\ \E outcome \in {"passed", "failed", "raised"} :
         LET report   == [is_check_passed |-> outcome = "passed"]
             returned == outcome # "raised"
             ok       == returned /\ AssertHolds(report)
         IN  /\ calls' = Append(calls, Call("check_file", TrainFile(notebook), returned))
             /\ sft_report' = IF returned THEN <<report>> ELSE sft_report
             /\ printed' = IF returned
                           THEN Append(printed, "is_check_passed: " \o outcome)
                           ELSE printed
             /\ cell' = AfterCall(ok)
             /\ error' = IF ~returned THEN "check_file"
                         ELSE Raised(ok, "AssertionError")
    /\ UNCHANGED <<notebook, train_file_resp, ft_resp, job_status, adapter_k>>
    /\ UNCHANGED nonPipeVars

\* train_file_resp = client.files.upload(file, check=True); print the id
Upload ==
    /\ cell = "files.upload"
    /\ \E ok \in BOOLEAN, id \in FileIds :
         /\ calls' = Append(calls, Call("files.upload", TrainFile(notebook), ok))
         /\ train_file_resp' = IF ok THEN <<[id |-> id]>> ELSE train_file_resp
         /\ printed' = IF ok THEN Append(printed, UploadPrint(notebook, id)) ELSE printed
         /\ cell' = AfterCall(ok)
         /\ error' = Raised(ok, "files.upload")
    /\ UNCHANGED <<notebook, sft_report, ft_resp, job_status, adapter_k>>
    /\ UNCHANGED nonPipeVars

\* ft_resp = client.fine_tuning.create(training_file = ..., ...); print the id
Create ==
    /\ cell = "fine_tuning.create"
    /\ \E ok \in BOOLEAN :
         /\ calls' = Append(calls, Call("fine_tuning.create",
                                        [training_file |-> training_file(notebook),
                                         model |-> FtModel(notebook),
                                         suffix |-> FtSuffix(notebook)], ok))
         /\ ft_resp' = IF ok
                       THEN <<[id |-> JobId, output_name |-> OutputName(notebook)]>>
                       ELSE ft_resp
         /\ job_status' = IF ok THEN "pending" ELSE job_status
         /\ printed' = IF ok THEN Append(printed, JobId) ELSE printed
         /\ cell' = AfterCall(ok)
         /\ error' = Raised(ok, "fine_tuning.create")
    /\ UNCHANGED <<notebook, sft_report, train_file_resp, adapter_k>>
    /\ UNCHANGED nonPipeVars

\* the platform works on the job while the notebook goes on
JobProgress ==
    /\ job_status \in {"pending", "running"}
    /\ job_status' = IF job_status = "pending" THEN "running" ELSE "completed"
    /\ UNCHANGED <<notebook, cell, error, sft_report, train_file_resp, ft_resp,
                   calls, adapter_k, printed>>
    /\ UNCHANGED nonPipeVars

\* resp = client.fine_tuning.retrieve(ft_resp.id); print(resp.status)
Retrieve ==
    /\ cell = "fine_tuning.retrieve"
    /\ \E ok \in BOOLEAN :
         /\ calls' = Append(calls, Call("fine_tuning.retrieve", Field(ft_resp, "id"), ok))
         /\ printed' = IF ok THEN Append(printed, job_status) ELSE printed
         /\ cell' = AfterCall(ok)
         /\ error' = Raised(ok, "fine_tuning.retrieve")
    /\ UNCHANGED <<notebook, sft_report, train_file_resp, ft_resp, job_status, adapter_k>>
    /\ UNCHANGED nonPipeVars

\* for event in client.fine_tuning.list_events(id=ft_resp.id).data: print
ListEvents ==
    /\ cell = "fine_tuning.list_events"
    /\ \E ok \in BOOLEAN :
         /\ calls' = Append(calls, Call("fine_tuning.list_events", Field(ft_resp, "id"), ok))
         /\ printed' = IF ok THEN Append(printed, "events up to " \o job_status)
                       ELSE printed
         /\ cell' = AfterCall(ok)
         /\ error' = Raised(ok, "fine_tuning.list_events")
    /\ UNCHANGED <<notebook, sft_report, train_file_resp, ft_resp, job_status, adapter_k>>
    /\ UNCHANGED nonPipeVars

\* response = client.chat.completions.create(model = <output model>, ...); print
Inference ==
    /\ cell = "inference"
    /\ \E ok \in BOOLEAN :
         LET req == ChatRequest(InferenceModel(notebook), InferencePrompt(notebook),
                                InferenceTemperature(notebook))
         IN  /\ calls' = Append(calls, Call("chat.completions.create", req, ok))
             /\ printed' = IF ok THEN Append(printed, Completion(req)) ELSE printed
             /\ cell' = AfterCall(ok)
             /\ error' = Raised(ok, "chat.completions.create")
    /\ UNCHANGED <<notebook, sft_report, train_file_resp, ft_resp, job_status, adapter_k>>
    /\ UNCHANGED nonPipeVars

\* one iteration of: for adapter in LoRA_adapters: create(...); print x 3
AdapterLoop ==
    /\ cell = "adapters"
    /\ adapter_k <= Len(LoRA_adapters)
    /\ \E ok \in BOOLEAN :
         LET adapter == AdapterAt(adapter_k)
             req     == ChatRequest(adapter, AdapterPrompt, "0.7")
         IN  /\ calls' = Append(calls, Call("chat.completions.create", req, ok))
             /\ printed' = IF ok THEN printed \o AdapterPrints(adapter, Completion(req))
                           ELSE printed
             /\ adapter_k' = IF ok THEN adapter_k + 1 ELSE adapter_k
             /\ cell' = IF ok /\ adapter_k < Len(LoRA_adapters) THEN cell
                        ELSE AfterCall(ok)
             /\ error' = Raised(ok, "chat.completions.create")
    /\ UNCHANGED <<notebook, sft_report, train_file_resp, ft_resp, job_status>>
    /\ UNCHANGED nonPipeVars

InitPipeline ==
    /\ notebook \in Notebooks
    /\ cell = Cells(notebook)[1]
    /\ error = ""
    /\ sft_report = <<>>
    /\ train_file_resp = <<>>
    /\ ft_resp = <<>>
    /\ job_status = "none"
    /\ calls = <<>>
    /\ adapter_k = 1
    /\ printed = <<>>
    /\ pred_answers = <<>>
    /\ metric = <<>>
    /\ prev_sent = <<>>
    /\ coqa_dataset_validation = <<>>
    /\ model_name = base_model
    /\ pc = "idle"
    /\ inqueue = <<>>
    /\ idle = ThreadPoolSize
    /\ status = <<>>
    /\ messages = <<>>
    /\ answers = <<>>
    /\ sent = <<>>
    /\ replies = <<>>
    /\ it_index = 1
    /\ it_items = <<>>
    /\ it_unsorted = <<>>
    /\ model_answers = <<>>
    /\ row = NoRow
    /\ mapped = <<>>

NextPipeline ==
    \/ CheckFile
    \/ Upload
    \/ Create
    \/ JobProgress
    \/ Retrieve
    \/ ListEvents
    \/ Inference
    \/ AdapterLoop

SpecPipeline == InitPipeline /\ [][NextPipeline]_vars

(***************************************************************************)
(* Properties.                                                             *)
(***************************************************************************)
\* rows whose get_answers call is running (its request is in flight)
InProgress == {i \in Items : status[i] = "waiting"}

\* C1: get_model_answers preserves input order: whatever the order in which
\* the workers complete, the i-th element collected into model_answers is the
\* answer list that the get_answers call on the i-th validation row returned,
\* and on return there is one element per row.
C1_OrderPreserved ==
    /\ \A i \in DOMAIN model_answers :
          /\ i \in Items
          /\ status[i] = "finished"
          /\ model_answers[i] = answers[i]
    /\ pc = "done" => Len(model_answers) = NumItems

\* a later row completed ahead of an earlier one, with a different answer
\* list from the one already collected
C1_Witness ==
    /\ pc = "loop"
    /\ model_answers # <<>>
    /\ \E j \in DOMAIN it_unsorted : it_unsorted[j] # model_answers[1]

\* C2: a failing chat-completion call never fails the batch: for every call
\* that raised, get_answers recorded "Invalid Response" at that question's
\* position and went on with the next question (or returned, after the last
\* one); the answers recorded for successful calls, of this row and of every
\* other row, are the texts the API gave; the calling thread is never left
\* with a failed task.
C2_FailureIsolated ==
    /\ \A i \in Items :
          /\ Len(answers[i]) = Len(replies[i])
          /\ \A k \in 1..Len(replies[i]) :
                IF replies[i][k].ok
                THEN answers[i][k] = replies[i][k].content
                ELSE /\ answers[i][k] = InvalidResponse
                     /\ IF k < Len(Pairs(i))
                        THEN Len(sent[i]) > k
                        ELSE status[i] = "finished"
    /\ pc \in {"start", "loop", "done"}

\* the batch has returned although a call of row 1 failed, and row 2 kept
\* the text of its successful call
C2_Witness ==
    /\ pc = "done"
    /\ NumItems = 2
    /\ \E k \in 1..Len(replies[1]) : ~replies[1][k].ok /\ k < Len(replies[1])
    /\ \E k \in 1..Len(replies[2]) : replies[2][k].ok
    /\ Len(model_answers) = 2

\* the messages map_fields returned for row
Mapped == mapped[1].messages

\* C3: map_fields returns a conversation whose first message has role system,
\* followed by strictly alternating user, assistant, user, assistant, ...
\* messages; exactly one system message occurs and every role is one of
\* system, user, assistant.
C3_Roles ==
    mapped # <<>> =>
        /\ Len(Mapped) >= 1
        /\ Mapped[1].role = "system"
        /\ \A p \in 2..Len(Mapped) :
              Mapped[p].role = IF p % 2 = 0 THEN "user" ELSE "assistant"
        /\ Len(Mapped) % 2 = 1
        /\ Cardinality({p \in DOMAIN Mapped : Mapped[p].role = "system"}) = 1
        /\ \A p \in DOMAIN Mapped : Mapped[p].role \in {"system", "user", "assistant"}

\* a row with two questions and two answers has been mapped
C3_Witness ==
    /\ mapped # <<>>
    /\ Len(row.questions) = 2
    /\ Len(row.answers.input_text) = 2
    /\ Len(Mapped) = 5

\* C4: map_fields preserves order and content: the system message is the
\* prompt template filled with the row's story, the k-th user message is the
\* k-th question and the message right after it is the assistant message
\* with the k-th answer.
C4_Content ==
    mapped # <<>> =>
        /\ Mapped[1].content = system_prompt \o row.story
        /\ \A p \in 2..Len(Mapped) :
              /\ p % 2 = 0 =>
                    /\ Mapped[p] = [role |-> "user", content |-> row.questions[p \div 2]]
                    /\ p + 1 <= Len(Mapped)
                    /\ Mapped[p + 1] =
                          [role |-> "assistant", content |-> row.answers.input_text[p \div 2]]
              /\ p % 2 = 1 => Mapped[p].role = "assistant"

\* a mapped row whose two questions differ and whose two answers differ
C4_Witness ==
    /\ mapped # <<>>
    /\ Len(Mapped) = 5
    /\ row.questions = <<"q2", "q1">>
    /\ row.answers.input_text = <<"a1", "a2">>
    /\ row.story = "s2"

\* C5: at most 8 get_answers calls, and so at most 8 chat-completion
\* requests, are in progress at any moment, however many rows there are.
C5_AtMostEight == Cardinality(InProgress) <= 8

\* eight calls are in progress while a further row waits for a worker
C5_Witness ==
    /\ Cardinality(InProgress) = 8
    /\ inqueue # <<>>
    /\ NumItems > 8

\* C6: no shared mutable state is written by pool workers: a step leaves the
\* local messages and answers lists of every get_answers call other than the
\* one taking it untouched, and model_answers is appended to only by the
\* calling thread, one collected result at a time, in a step in which no
\* worker writes anything.
C6_NoSharedWrites ==
    [][/\ \A j \in Items :
            (status'[j] = status[j] /\ replies'[j] = replies[j]) =>
                (messages'[j] = messages[j] /\ answers'[j] = answers[j])
       /\ model_answers' # model_answers =>
            /\ pc = "loop"
            /\ it_items # <<>>
            /\ model_answers' = Append(model_answers, Head(it_items))
            /\ UNCHANGED <<status, messages, answers, sent, replies>>]_vars

\* two calls are in progress at once, each with its own history, and one of
\* them has already recorded an answer
C6_Witness ==
    /\ NumItems = 2
    /\ status[1] = "waiting"
    /\ status[2] = "waiting"
    /\ answers[1] # <<>>
    /\ answers[2] = <<>>
    /\ messages[1] # messages[2]

\* C7: no retry and no skipping: the k-th request of a row is the one made
\* for its k-th question, a row never gets more requests than it has
\* (question, answer) pairs, each request gets one reply, and a finished row
\* has had exactly one request per pair, whether calls failed or not.
C7_OneRequestPerPair ==
    \A i \in Items :
        /\ Len(sent[i]) <= Len(Pairs(i))
        /\ \A k \in 1..Len(sent[i]) :
              LET m == sent[i][k].messages
              IN  m[Len(m)] = [role |-> "user", content |-> Pairs(i)[k][1]]
        /\ Len(sent[i]) = Len(replies[i]) + (IF status[i] = "waiting" THEN 1 ELSE 0)
        /\ status[i] = "finished" => Len(sent[i]) = Len(Pairs(i))

\* a row with two pairs is finished after its first call failed
C7_Witness ==
    \E i \in Items :
        /\ status[i] = "finished"
        /\ Len(Pairs(i)) = 2
        /\ ~replies[i][1].ok
        /\ Len(sent[i]) = 2

\* C8 as stated: the evaluator issues one network call per validation row.
C8_OneCallPerItem ==
    pc = "done" => \A i \in Items : Len(sent[i]) = 1

\* C8 as amended: the evaluator runs one get_answers task per validation row
\* (a row is in the task queue exactly while it has not been taken), and that
\* task issues as many network calls as the shorter of the row's questions
\* and answers lists is long: none, one or several.
C8_OneTaskPerItem ==
    /\ \A i \in Items :
          Cardinality({p \in DOMAIN inqueue : inqueue[p] = i}) =
              (IF pc # "start" /\ status[i] = "queued" THEN 1 ELSE 0)
    /\ pc = "done" =>
          \A i \in Items :
              /\ status[i] = "finished"
              /\ Len(sent[i]) = Min(Len(coqa_dataset_validation[i].questions),
                                    Len(coqa_dataset_validation[i].answers.input_text))

\* returned after a row with no call and a row with two calls
C8_Witness ==
    /\ pc = "done"
    /\ \E i \in Items : Len(sent[i]) = 0
    /\ \E i \in Items : Len(sent[i]) = 2

\* the request made for the k-th question of a row, from the model name and
\* the row alone
RequestFor(name, data, k) ==
    [messages   |-> <<[role |-> "system", content |-> system_prompt \o data.story]>>
                    \o [j \in 1..k |-> [role |-> "user", content |-> data.questions[j]]],
     model      |-> name,
     max_tokens |-> 64]

\* C9: each evaluation request is independent: the model name and message
\* list of every request sent are a function of the model_name argument and
\* the validation row alone, whatever the API answered and whichever calls
\* failed before.
C9_RequestsIndependent ==
    \A i \in Items : \A k \in 1..Len(sent[i]) :
        sent[i][k] = RequestFor(model_name, coqa_dataset_validation[i], k)

\* the second request of a row has been sent after a failed first call, while
\* another row got a text for its first call
C9_Witness ==
    /\ NumItems = 2
    /\ Len(sent[1]) = 2
    /\ ~replies[1][1].ok
    /\ Len(replies[2]) >= 1
    /\ replies[2][1].ok

\* C10: the returned list is aligned with the dataset: the i-th inner list
\* has one entry per (question, answer) pair of row i, and its k-th entry is
\* the text the API gave for the request made for question k, or the
\* placeholder if that call failed; a failure shifts or drops nothing.
C10_Aligned ==
    pc = "done" =>
        /\ Len(model_answers) = NumItems
        /\ \A i \in Items :
              /\ Len(model_answers[i]) = Len(Pairs(i))
              /\ Len(replies[i]) = Len(Pairs(i))
              /\ \A k \in 1..Len(Pairs(i)) :
                    model_answers[i][k] =
                        IF replies[i][k].ok THEN replies[i][k].content
                        ELSE "Invalid Response"

\* returned with a failed first call followed by an answered second call
C10_Witness ==
    /\ pc = "done"
    /\ \E i \in Items :
          /\ Len(Pairs(i)) = 2
          /\ ~replies[i][1].ok
          /\ replies[i][2].ok
          /\ model_answers[i] = <<"Invalid Response", replies[i][2].content>>

\* C11: the evaluation batch completes: given that every chat-completion
\* call eventually returns or raises, get_model_answers eventually returns,
\* and when it has returned its result holds one inner list for every
\* validation row, each row's own, with nothing left uncollected, even if
\* every call failed.
C11_Completes ==
    /\ <>(pc = "done")
    /\ [](pc = "done" =>
            /\ Len(model_answers) = NumItems
            /\ \A i \in Items : status[i] = "finished" /\ model_answers[i] = answers[i]
            /\ it_items = <<>>
            /\ DOMAIN it_unsorted = {})

\* returned from a batch of two rows in which every call failed
C11_Witness ==
    /\ pc = "done"
    /\ NumItems = 2
    /\ Len(model_answers) = 2
    /\ \A i \in Items :
          /\ Len(replies[i]) = 2
          /\ \A k \in 1..Len(replies[i]) : ~replies[i][k].ok

\* the (row, position) pairs get_metrics scores: row i of the predictions
\* against row i of the validation set, answer k against answer k
ScoredPairs ==
    UNION {{<<i, k>> : k \in 1..(IF Len(pred_answers[i]) <=
                                   Len(coqa_dataset_validation[i].answers.input_text)
                                THEN Len(pred_answers[i])
                                ELSE Len(coqa_dataset_validation[i].answers.input_text))} :
           i \in 1..(IF Len(pred_answers) <= NumItems THEN Len(pred_answers) ELSE NumItems)}

RECURSIVE SumOver(_, _)
SumOver(f, S) ==
    IF S = {} THEN [num |-> 0, den |-> 1]
    ELSE LET x == CHOOSE y \in S : TRUE
         IN  RAdd(f[x], SumOver(f, S \ {x}))

ExactAt ==
    [p \in ScoredPairs |->
        compute_exact(coqa_dataset_validation[p[1]].answers.input_text[p[2]],
                      pred_answers[p[1]][p[2]])]

F1At ==
    [p \in ScoredPairs |->
        compute_f1(coqa_dataset_validation[p[1]].answers.input_text[p[2]],
                   pred_answers[p[1]][p[2]])]

\* C12: get_metrics returns the pooled averages: each result times the number
\* of scored pairs is the sum of the per-pair scores, the scored pairs being
\* the positional pairing of each row's predictions with its true answers;
\* it is not the average of per-conversation averages.
C12_PooledAverage ==
    (metric # <<>> /\ ScoredPairs # {}) =>
        /\ ~metric[1].raised
        /\ RMul(metric[1].em, [num |-> Cardinality(ScoredPairs), den |-> 1]) =
              SumOver(ExactAt, ScoredPairs)
        /\ RMul(metric[1].f1, [num |-> Cardinality(ScoredPairs), den |-> 1]) =
              SumOver(F1At, ScoredPairs)

\* scored: a row with two pairs, both wrong, and a row with one exact match;
\* the pooled averages are 1/3, the average of the row averages would be 1/2
C12_Witness ==
    /\ metric # <<>>
    /\ NumItems = 2
    /\ pred_answers = <<<<"Invalid Response", "The cat.">>, <<"The cat.">>>>
    /\ Len(coqa_dataset_validation[1].answers.input_text) = 2
    /\ Len(coqa_dataset_validation[2].answers.input_text) = 1
    /\ ~metric[1].raised
    /\ metric[1].em = [num |-> 1, den |-> 3]

\* C13: the base model and the fine-tuned model are evaluated on the same
\* prompts: every request of the second run carries the message list the
\* first run sent for the same row and question, with the same max_tokens,
\* only the model differs, and a finished row has had as many requests as in
\* the first run.
C13_SamePrompts ==
    prev_sent # <<>> =>
        \A i \in Items :
            /\ Len(sent[i]) <= Len(prev_sent[1][i])
            /\ status[i] = "finished" => Len(sent[i]) = Len(prev_sent[1][i])
            /\ \A k \in 1..Len(sent[i]) :
                  /\ sent[i][k].messages = prev_sent[1][i][k].messages
                  /\ sent[i][k].max_tokens = prev_sent[1][i][k].max_tokens
                  /\ prev_sent[1][i][k].model = "meta-llama/Meta-Llama-3.1-8B-Instruct-Turbo"
                  /\ sent[i][k].model # prev_sent[1][i][k].model

\* the second run has returned; a call of row 1 failed in it, and two
\* requests were sent for that row in each run
C13_Witness ==
    /\ prev_sent # <<>>
    /\ pc = "done"
    /\ NumItems >= 1
    /\ Len(sent[1]) = 2
    /\ Len(prev_sent[1][1]) = 2
    /\ ~replies[1][1].ok

\* the calls made so far, by position in the call history
CallsTo(api) == {k \in 1..Len(calls) : calls[k].api = api}

\* C14: an exception raised by the file check, the upload, the job
\* creation, the status retrieval or the single inference call is not
\* caught: the run halts there and no later cell is executed.  A call that
\* raised is the last call made, a job is created only after an upload
\* that returned, and a chat completion is issued only after a job
\* creation that returned.
C14_FailureHalts ==
    /\ [](error # "" => cell = "halted")
    /\ [](\A k \in 1..Len(calls) : ~calls[k].ok => k = Len(calls))
    /\ [](\A k \in CallsTo("fine_tuning.create") :
            \E j \in CallsTo("files.upload") : j < k /\ calls[j].ok)
    /\ [](\A k \in CallsTo("chat.completions.create") :
            \E j \in CallsTo("fine_tuning.create") : j < k /\ calls[j].ok)
    /\ [][cell = "halted" =>
            UNCHANGED <<cell, error, sft_report, train_file_resp, ft_resp,
                        calls, adapter_k, printed>>]_vars

\* the job creation has raised after a successful upload: the run is halted
\* with no job and no inference call
C14_Witness ==
    /\ cell = "halted"
    /\ error = "fine_tuning.create"
    /\ train_file_resp # <<>>
    /\ ft_resp = <<>>
    /\ CallsTo("chat.completions.create") = {}

\* C15: in the fine-tuning guide client.files.upload is reached only when
\* check_file has reported is_check_passed true; a report that says false
\* fails the assertion, which halts the run before any upload.
C15_UploadAfterCheckPassed ==
    notebook = "guide" =>
        /\ CallsTo("files.upload") # {} =>
             /\ sft_report # <<>>
             /\ sft_report[1].is_check_passed = TRUE
        /\ (sft_report # <<>> /\ sft_report[1].is_check_passed = FALSE) =>
             /\ cell = "halted"
             /\ error = "AssertionError"
             /\ CallsTo("files.upload") = {}

\* the guide has uploaded the file after a check that passed
C15_Witness ==
    /\ notebook = "guide"
    /\ sft_report = <<[is_check_passed |-> TRUE]>>
    /\ \E k \in CallsTo("files.upload") : calls[k].ok

\* C16: the fine-tuning job is started with the id of the training file
\* uploaded earlier in the same run: the training_file given to
\* client.fine_tuning.create is the id the preceding client.files.upload
\* returned.
C16_TrainingFileIsUploaded ==
    \A k \in CallsTo("fine_tuning.create") :
        /\ train_file_resp # <<>>
        /\ calls[k].arg.training_file = train_file_resp[1].id

\* the chat completions that name the output model of the job of this run
OutputModelCalls ==
    {k \in CallsTo("chat.completions.create") :
        calls[k].arg.model \in {OutputName(notebook),
                                OutputName(notebook) \o "-adapter"}}

\* C17: a chat completion that names the job's output model, with or
\* without the "-adapter" suffix, is issued only after the job has reached
\* status completed.
C17_InferenceAfterCompleted ==
    \A k \in OutputModelCalls : calls[k].job = "completed"

\* the requests of the adapter loop, by position in the call history
HaikuCalls ==
    {k \in CallsTo("chat.completions.create") :
        calls[k].arg.messages[1].content = "Write a short haiku about elephants."}

\* the k-th request the adapter loop has to make
HaikuRequest(k) ==
    [model |-> LoRA_adapters[k],
     messages |-> <<[role |-> "user",
                     content |-> "Write a short haiku about elephants."]>>,
     max_tokens |-> 124, temperature |-> "0.7"]

\* the loop has printed the responses of its first n requests, in order,
\* as the last 3 * n things printed
HaikuPrinted(n) ==
    /\ Len(printed) >= 3 * n
    /\ \A j \in 1..n :
         LET at == Len(printed) - 3 * (n - j)
         IN  /\ printed[at - 2] = "Response from " \o LoRA_adapters[j] \o ":\n"
             /\ printed[at - 1] = "re: Write a short haiku about elephants."
             /\ printed[at] = Separator

\* the loop has made its first n requests, one after the other, and all
\* but possibly the last have been answered
HaikuPrefix(n) ==
    /\ n <= Len(LoRA_adapters)
    /\ HaikuCalls = (Len(calls) - n + 1)..Len(calls)
    /\ \A j \in 1..n :
         /\ calls[Len(calls) - n + j].arg = HaikuRequest(j)
         /\ j < n => calls[Len(calls) - n + j].ok

\* C18: the adapter loop issues one chat completion per entry of
\* LoRA_adapters, in list order, each with the same single user message
\* and parameters and with model equal to the entry; a request is issued
\* only after the response to the one before it has been received and
\* printed; an exception on one adapter ends the run, so no later adapter
\* is queried; a loop that runs to its end has queried every entry once.
C18_AdapterLoop ==
    /\ [](LET n == Cardinality(HaikuCalls)
          IN  /\ HaikuPrefix(n)
              /\ n > 0 =>
                   IF calls[Len(calls)].ok
                   THEN HaikuPrinted(n)
                   ELSE HaikuPrinted(n - 1) /\ cell = "halted")
    /\ [](notebook = "lora" /\ cell = "end" =>
            Cardinality(HaikuCalls) = Len(LoRA_adapters))
    /\ [][LET n == Cardinality(HaikuCalls)
          IN  Len(calls') > Len(calls) /\ n > 0 /\ cell = "adapters" =>
                /\ calls[Len(calls)].ok
                /\ HaikuPrinted(n)
                /\ calls'[Len(calls')].arg = HaikuRequest(n + 1)]_vars

\* the loop has run to its end: three requests, three responses printed
C18_Witness ==
    /\ notebook = "lora"
    /\ cell = "end"
    /\ Cardinality(HaikuCalls) = 3
    /\ HaikuPrinted(3)

\* C19: the conversation sent for the k-th question of a row is the
\* system message followed by exactly the first k questions as user
\* messages, in order, with no assistant message: replies are never added
\* to the history, and the user turn of a failed call stays in the
\* history of every later request of the row.
C19_HistoryOfQuestions ==
    \A i \in Items :
        /\ \A k \in 1..Len(sent[i]) :
             LET m == sent[i][k].messages
                 q == coqa_dataset_validation[i].questions
             IN  /\ Len(m) = k + 1
                 /\ m[1].role = "system"
                 /\ \A j \in 1..k : m[j + 1] = [role |-> "user", content |-> q[j]]
                 /\ \A j \in 1..Len(m) : m[j].role # "assistant"
                 /\ \A j \in 1..(k - 1) :
                      ~replies[i][j].ok => m[j + 1].content = q[j]
        /\ \A j \in 1..Len(messages[i]) : messages[i][j].role # "assistant"

\* both questions of a row have been asked: the first call failed, the
\* second was answered
C19_Witness ==
    \E i \in Items :
        /\ Len(sent[i]) = 2
        /\ Len(replies[i]) = 2
        /\ ~replies[i][1].ok
        /\ replies[i][2].ok
        /\ Len(sent[i][2].messages) = 3

\* C20: when the questions and the answers of a row differ in length,
\* map_fields raises nothing and stops at the end of the shorter list: it
\* returns exactly 1 + 2 * min(#questions, #answers) messages, and for a
\* row with no questions only the system message.
C20_Truncates ==
    mapped # <<>> =>
        LET nq == Len(row.questions)
            na == Len(row.answers.input_text)
        IN  /\ DOMAIN mapped[1] = {"messages"}
            /\ Len(Mapped) = 1 + 2 * (IF nq <= na THEN nq ELSE na)
            /\ nq = 0 =>
                 Mapped = <<[role |-> "system", content |-> system_prompt \o row.story]>>

\* a row with two questions and one answer has been mapped to three messages
C20_Witness ==
    /\ mapped # <<>>
    /\ Len(row.questions) = 2
    /\ Len(row.answers.input_text) = 1
    /\ Len(Mapped) = 3

\* the scored pairs whose prediction is the placeholder of a failed call
PlaceholderPairs ==
    {p \in ScoredPairs : pred_answers[p[1]][p[2]] = "Invalid Response"}

\* the predictions with every placeholder replaced by an answer text
WithoutPlaceholders ==
    [i \in DOMAIN pred_answers |-> [k \in DOMAIN pred_answers[i] |-> "The cat."]]

\* C21: a placeholder is scored like any other prediction: it is paired
\* with the true answer at its position and adds one score to each list,
\* so the number of scored pairs is the same as without failures; in the
\* averages it counts in the divisor and adds its own score to the sum
\* (exact match 0; F1 1/2 against "no response", with which it shares a
\* word, and 0 against "cat").
C21_PlaceholdersScored ==
    metric # <<>> =>
        LET lists == ScoreLists(pred_answers, coqa_dataset_validation)
            n     == Cardinality(ScoredPairs)
            half  == {p \in PlaceholderPairs :
                        coqa_dataset_validation[p[1]].answers.input_text[p[2]]
                            = "no response"}
        IN  /\ Len(lists.em) = n
            /\ Len(lists.f1) = n
            /\ Len(ScoreLists(WithoutPlaceholders, coqa_dataset_validation).em) = n
            /\ n > 0 =>
                 /\ RMul(metric[1].em, [num |-> n, den |-> 1])
                      = SumOver(ExactAt, ScoredPairs \ PlaceholderPairs)
                 /\ RMul(metric[1].f1, [num |-> n, den |-> 1])
                      = RAdd(SumOver(F1At, ScoredPairs \ PlaceholderPairs),
                             Rat(Cardinality(half), 2))

\* a row answered with a text and then a placeholder has been scored, the
\* placeholder against "no response"
C21_Witness ==
    /\ metric # <<>>
    /\ ~metric[1].raised
    /\ <<1, 1>> \in ScoredPairs \ PlaceholderPairs
    /\ <<1, 2>> \in PlaceholderPairs
    /\ metric[1].f1 = [num |-> 3, den |-> 4]

\* pred_answers is empty, or each of its inner lists is
NoPredictions == \A i \in DOMAIN pred_answers : pred_answers[i] = <<>>

\* C22: get_metrics raises ZeroDivisionError instead of returning scores
\* exactly when there is no scored pair, as when pred_answers is empty or
\* every inner list is empty; for the answers of get_model_answers these
\* are the only such cases.  Otherwise the two divisors are equal and
\* positive.
C22_ZeroDivision ==
    metric # <<>> =>
        LET lists == ScoreLists(pred_answers, coqa_dataset_validation)
        IN  /\ metric[1].raised <=> ScoredPairs = {}
            /\ NoPredictions => metric[1].raised
            /\ FromModelAnswers => (metric[1].raised <=> NoPredictions)
            /\ ~metric[1].raised =>
                 /\ Len(lists.em) = Len(lists.f1)
                 /\ Len(lists.em) > 0
                 /\ DOMAIN metric[1] = {"raised", "em", "f1"}
            /\ metric[1].raised => DOMAIN metric[1] = {"raised"}

\* get_metrics has raised on the answers of a validation set whose rows
\* have no question: a list of empty lists
C22_Witness ==
    /\ metric # <<>>
    /\ metric[1].raised
    /\ NumItems = 2
    /\ FromModelAnswers
    /\ pred_answers = <<<<>>, <<>>>>

\* the rows get_answers cannot read
Unreadable == {i \in Items : ~(RowFields \subseteq DOMAIN coqa_dataset_validation[i])}

\* C23: only an exception raised inside the per-question try block becomes
\* the placeholder.  An exception get_answers raises outside it, reading
\* story, questions or answers of the row, leaves no answer and no
\* request for that row, comes out of pool.imap in the caller in the
\* row's turn, and get_model_answers raises: it never returns, and the
\* answers already collected for the rows before are not returned either.
C23_OutsideTryPropagates ==
    /\ [](\A i \in Items :
            /\ status[i] = "raised" <=> (i \in Unreadable /\ status[i] # "queued")
            /\ i \in Unreadable => sent[i] = <<>> /\ answers[i] = <<>>)
    /\ [](pc = "done" => Unreadable = {})
    /\ [](pc = "raised" =>
            /\ Len(model_answers) + 1 \in Unreadable
            /\ \A i \in 1..Len(model_answers) : i \notin Unreadable)
    /\ [][pc = "raised" => pc' = "raised"]_vars
    /\ (Unreadable # {}) ~> (pc = "raised")
    /\ (Unreadable = {}) ~> (pc = "done")

\* get_model_answers has raised on its second row, with the answers of the
\* first row collected and the third row answered
C23_Witness ==
    /\ pc = "raised"
    /\ NumItems = 3
    /\ Unreadable = {2}
    /\ Len(model_answers) = 1
    /\ status[3] = "finished"
    /\ answers[3] # <<>>

\* C24: when get_model_answers returns, every get_answers task has
\* finished and the pool is shut down: every request has come back, no
\* task is queued or running, all 8 workers are idle, and no request is
\* issued from then on.
C24_QuietOnReturn ==
    /\ [](pc = "done" =>
            /\ \A i \in Items :
                 /\ status[i] = "finished"
                 /\ Len(replies[i]) = Len(sent[i])
            /\ inqueue = <<>>
            /\ idle = 8
            /\ ~ENABLED (WorkerStart \/ \E i \in Items : Respond(i)))
    /\ [][pc = "done" => sent' = sent /\ status' = status /\ pc' = "done"]_vars

\* get_model_answers has returned after three requests over two rows
C24_Witness ==
    /\ pc = "done"
    /\ NumItems = 2
    /\ Len(sent[1]) = 2
    /\ Len(sent[2]) = 1
    /\ idle = 8
    /\ Len(model_answers) = 2

====
